---- MODULE Spec2Model ----
(***************************************************************************)
(* Request orchestration and resilience layer of the MAFA agents backend:  *)
(* the sliding-window RateLimiter and its middleware (API.py), the         *)
(* request-scoped credential and GET cache and the retrying session        *)
(* (http_client.py), the endpoints that attach and tear them down, the     *)
(* query validator, the health report, lifespan and the ConnectionManager  *)
(* (API.py) and _fetch_parallel (tools/investment_strategy_tools.py).      *)
(***************************************************************************)
EXTENDS Integers, Sequences, FiniteSets, TLC

VARIABLES
    \* ---- RateLimiter (API.py 53-87) ----
    clock,          \* the value time.time() returned last (non-decreasing)
    requests,       \* self._requests: caller key -> list of admitted timestamps
    last_cleanup,   \* self._last_cleanup
    ret,            \* result of the latest finished is_allowed call
    lastKey,        \* key of the latest finished is_allowed call
    swept,          \* whether the latest is_allowed call ran the stale-key sweep
    calls,          \* number of is_allowed calls started so far
    log,            \* history: <<key, timestamp>> of every call that returned True
    denied,         \* history: keys that were rejected at least once
    \* ---- is_allowed run by several threads (no lock in the class) ----
    tpc,            \* thread -> position inside is_allowed
    tkey,           \* thread -> key argument
    tnow,           \* thread -> local variable now
    ttmp,           \* thread -> the pruned list built at line 69, not yet stored
    \* ---- inbound requests, their context and GET cache (http_client.py, API.py) ----
    pc,             \* request -> position inside its endpoint handler
    ep,             \* request -> the endpoint that serves it
    ctx,            \* context id -> [token, cache]: the two ContextVars in that context
    heap,           \* dict id -> the dict object created by init_request_cache
    nops,           \* request -> reads issued so far by its tool logic
    pend,           \* request -> the outbound GET its handler thread waits for
    outbound,       \* request -> url -> number of outbound GET calls issued
    ngot,           \* history: request -> number of get() calls that returned
    lastgot,        \* history: request -> the response its latest get() returned
    seen,           \* history: request -> <<by, auth>> of the responses get() returned
    creds,          \* history: request -> the credentials its lookups returned
    \* ---- _fetch_parallel (tools/investment_strategy_tools.py 149-161) ----
    tn,             \* request -> number of callables of the running _fetch_parallel
    turl,           \* request -> task -> the url the callable reads
    tstate,         \* request -> task -> queued / running / done / raised
    tres,           \* request -> task -> pending call, then result of the callable
    order,          \* request -> tasks in the order they finished
    fpj,            \* request -> number of futures joined so far
    results,        \* request -> the list built by [f.result() for f in futures]
    fpexc,          \* request -> a joined future raised
    fpret,          \* request -> outcome of the latest _fetch_parallel call
    outcome,        \* request -> how its handler left the try block
    \* ---- one call of get/post/put/delete through the session (http_client.py) ----
    hpc,            \* idle / wait (an attempt is in flight) / returned / raised
    hmethod,        \* the HTTP method of the call
    hkw,            \* the keyword arguments handed to the session
    hretries,       \* what is left of Retry.total
    hsent,          \* requests sent to the backend by this call
    hstatuses,      \* history: the answers the attempts got
    hresp,          \* status of the response the call returned
    \* ---- lifespan, ConnectionManager and the relay of bus events (API.py 121-184) ----
    lpc,            \* position of lifespan(): start / connect / subscribe / serving / closing / stopped / crashed
    bus_available,  \* the local _event_bus_available of lifespan()
    busSubscribed,  \* broadcast_event is subscribed to MCP_RESULTS on the bus
    busFailed,      \* history: connect() or subscribe() raised at startup
    busShutdown,    \* history: shutdown_event_bus() was called
    active_connections, \* ws_manager.active_connections
    wstate,         \* websocket -> new / handshake / open / stalled (the client stopped reading) /
                    \* closed (the client is gone) / gone (handler ended)
    bpc,            \* broadcast(): idle / send (awaiting connection.send_json)
    bidx,           \* broadcast(): elements the list iterator has yielded
    bcur,           \* broadcast(): the connection of the current iteration
    bstart,         \* history: the connections registered when broadcast() was called
    battempted,     \* history: the connections broadcast() called send_json on
    bfailed,        \* history: the connections whose send_json raised
    delivered,      \* history: websocket -> events pushed to it
    nb,             \* broadcasts started so far
    wreg,           \* history: websocket -> times it was appended to the registry
    removed,        \* history: websocket -> times it was removed from the registry
    dstart,         \* history: the value of delivered when broadcast() was called
    \* ---- the read loop of websocket_stream (API.py 342-356) ----
    spos,           \* websocket -> recv (awaiting receive_text) / ack (awaiting send_json of the ack)
    data,           \* websocket -> the local variable data
    inbox,          \* websocket -> texts the client sent that the handler has not read yet
    rcvd,           \* history: websocket -> the texts receive_text returned
    acks,           \* history: websocket -> the message fields of the acks sent to it
    nmsg,           \* texts sent by clients so far
    dargs,          \* history: the arguments of the direct calls of disconnect()
    draised,        \* history: a call of disconnect() raised
    \* ---- MCPQueryRequest.sanitize_query (API.py 101-117) ----
    query,          \* the query field of the submitted body, a sequence of characters
    vres,           \* none / pending / rejected / accepted
    vout,           \* the value the validator returned
    \* ---- health_check (API.py 239-268) ----
    checks,         \* dependency -> the status its check reported
    health_status,  \* the overall status of the latest report
    \* ---- post / put / delete (http_client.py 121-130) ----
    writes,         \* history: request -> the writes it issued: method, url, Authorization
                    \* header, and the number of get() calls that had returned before
    \* ---- what an inbound request came with (API.py 205-232) ----
    inreq           \* history: request -> admitted by the limiter, bearer header present, body valid

rlVars == <<clock, requests, last_cleanup, ret, lastKey, swept, calls, log, denied>>
thVars == <<tpc, tkey, tnow, ttmp>>
rqVars == <<pc, ep, ctx, heap, nops, pend, outbound, ngot, lastgot, seen, creds, outcome>>
fpVars == <<tn, turl, tstate, tres, order, fpj, results, fpexc, fpret>>
httpVars == <<hpc, hmethod, hkw, hretries, hsent, hstatuses, hresp>>
wsVars == <<lpc, bus_available, busSubscribed, busFailed, busShutdown, active_connections,
           wstate, bpc, bidx, bcur, bstart, battempted, bfailed, delivered, nb,
           wreg, removed, dstart>>
stVars == <<spos, data, inbox, rcvd, acks, nmsg, dargs, draised>>
valVars == <<query, vres, vout>>
hcVars == <<checks, health_status>>
adVars == <<inreq>>
wrVars == <<writes>>
xVars == <<httpVars, wsVars, stVars, valVars, hcVars, adVars, wrVars>>
\* what the actions of one component leave alone
notHttp == <<rlVars, thVars, rqVars, fpVars, stVars, wsVars, valVars, hcVars, adVars, wrVars>>
notWs == <<rlVars, thVars, rqVars, fpVars, stVars, httpVars, valVars, hcVars, adVars, wrVars>>
notVal == <<rlVars, thVars, rqVars, fpVars, stVars, httpVars, wsVars, hcVars, adVars, wrVars>>
notStream == <<rlVars, thVars, rqVars, fpVars, httpVars, valVars, hcVars, adVars, wrVars>>
notHc == <<rlVars, thVars, rqVars, fpVars, stVars, httpVars, wsVars, valVars, adVars, wrVars>>

(***************************************************************************)
(* Bounds and program constants                                            *)
(***************************************************************************)
MaxRequests == 2
WindowSeconds == 2
SweepInterval == 300
MaxCalls == 4
MaxThreadCalls == 3

MaxOps == 2
MaxTasks == 2
MaxWorkers == 6
\* post / put / delete calls of one request
MaxWrites == 1

MaxConns == 2
MaxBroadcasts == 2
\* texts sent by the clients of the websockets, all connections together
MaxMsgs == 2
\* direct calls of ConnectionManager.disconnect
MaxDisconnects == 4
\* the texts a client sends
Texts == {"a", "b"}
\* the websockets that connect to /ws/mcp-stream
Conns == 1..MaxConns

\* the dependencies health_check asks (lines 243-253)
Dependencies == {"redis", "supabase", "broker_api", "mcp_servers"}

Keys == {"ip1", "ip2"}
Threads == {1, 2}
None == "none"

\* two inbound requests served at the same time, each with its own bearer token
Reqs == {"A", "B"}
Token(r) == IF r = "A" THEN "tokA" ELSE "tokB"

\* the endpoints: the agent endpoints (363-465), /mcp/execution/validate
\* (491-540) and /mcp/market/predict (472-488)
Endpoints == {"agent", "validate", "predict"}

Urls == {"/holdings", "/dashboard"}
Tasks == 1..MaxTasks

\* a context: the handler's own (index 0) or the copy made for task i
CtxIds == Reqs \X (0..MaxTasks)
EmptyCtx == [token |-> None, cache |-> None]

\* responses of the backend; by and id tell the outbound calls apart
NoResp == [url |-> None, auth |-> None, ok |-> FALSE, by |-> None, id |-> 0]

\* clock advances between two calls: none, one tick, a whole window, just less
\* than a sweep interval, a whole sweep interval
Steps == {0, 1, WindowSeconds, SweepInterval - 1, SweepInterval}

\* clock advances between two calls started by concurrent threads
ThreadSteps == {0, 1, WindowSeconds}

(***************************************************************************)
(* RateLimiter                                                             *)
(***************************************************************************)
\* self._requests[key] on a defaultdict(list): a missing key reads as []
Lookup(reqs, key) ==
    IF key \in DOMAIN reqs THEN reqs[key] ELSE <<>>

Store(reqs, key, list) ==
    [k \in DOMAIN reqs \cup {key} |-> IF k = key THEN list ELSE reqs[k]]

\* [t for t in self._requests[key] if t >= window_start]  (boundary kept)
PruneKeepBoundary(list, window_start) ==
    SelectSeq(list, LAMBDA t : t >= window_start)

\* [t for t in self._requests[key] if t > window_start]
Prune(list, window_start) ==
    SelectSeq(list, LAMBDA t : t > window_start)

\* a sweep that forgets the window: every key not used at this very instant
StaleAnyOlder(list, now) ==
    list = <<>> \/ list[Len(list)] < now

\* not v or v[-1] < cutoff, cutoff = now - window_seconds
Stale(list, now) ==
    list = <<>> \/ list[Len(list)] < now - WindowSeconds

\* _maybe_cleanup(now): the new <<_requests, _last_cleanup, ran>>
maybe_cleanup(reqs, lc, now) ==
    IF now - lc < SweepInterval
    THEN [requests |-> reqs, last_cleanup |-> lc, ran |-> FALSE]
    ELSE [requests |-> [k \in {x \in DOMAIN reqs : ~Stale(reqs[x], now)} |-> reqs[k]],
          last_cleanup |-> now,
          ran |-> TRUE]

\* the admission test with an off-by-one: len(...) > max_requests
FullOffByOne(list) ==
    Len(list) > MaxRequests

\* len(self._requests[key]) >= self.max_requests
Full(list) ==
    Len(list) >= MaxRequests

\* is_allowed that records the timestamp first and tests the length afterwards
is_allowed_append_first(reqs, lc, key, now) ==
    LET c == maybe_cleanup(reqs, lc, now)
        pruned == Prune(Lookup(c.requests, key), now - WindowSeconds)
        r1 == Store(c.requests, key, Append(pruned, now))
    IN  [requests |-> r1, last_cleanup |-> c.last_cleanup, ran |-> c.ran,
         result |-> ~(Len(pruned) >= MaxRequests)]

\* is_allowed(key) at time now, run without interruption
is_allowed(reqs, lc, key, now) ==
    LET c == maybe_cleanup(reqs, lc, now)
        pruned == Prune(Lookup(c.requests, key), now - WindowSeconds)
        r1 == Store(c.requests, key, pruned)
    IN  IF Full(pruned)
        THEN [requests |-> r1, last_cleanup |-> c.last_cleanup, ran |-> c.ran,
              result |-> FALSE]
        ELSE [requests |-> Store(r1, key, Append(pruned, now)),
              last_cleanup |-> c.last_cleanup, ran |-> c.ran, result |-> TRUE]

\* one call of the rate_limit_middleware: the event loop runs is_allowed whole
IsAllowed(key, dt) ==
    /\ calls < MaxCalls
    /\ LET now == clock + dt
           r == is_allowed(requests, last_cleanup, key, now)
       IN  /\ clock' = now
           /\ requests' = r.requests
           /\ last_cleanup' = r.last_cleanup
           /\ swept' = r.ran
           /\ ret' = IF r.result THEN "allowed" ELSE "denied"
           /\ lastKey' = key
           /\ calls' = calls + 1
           /\ log' = IF r.result THEN Append(log, <<key, now>>) ELSE log
           /\ denied' = IF r.result THEN denied ELSE denied \cup {key}
    /\ UNCHANGED <<thVars, xVars, rqVars, fpVars>>

vars == <<rlVars, thVars, xVars, rqVars, fpVars>>

Init ==
    /\ clock = SweepInterval
    /\ requests = <<>>
    /\ last_cleanup = 0
    /\ ret = None
    /\ lastKey = None
    /\ swept = FALSE
    /\ calls = 0
    /\ log = <<>>
    /\ denied = {}
    /\ tpc = [t \in Threads |-> "idle"]
    /\ tkey = [t \in Threads |-> None]
    /\ tnow = [t \in Threads |-> 0]
    /\ ttmp = [t \in Threads |-> <<>>]
    /\ pc = [r \in Reqs |-> "idle"]
    /\ ep = [r \in Reqs |-> None]
    /\ ctx = [c \in CtxIds |-> EmptyCtx]
    /\ heap = [r \in Reqs |-> <<>>]
    /\ nops = [r \in Reqs |-> 0]
    /\ pend = [r \in Reqs |-> NoResp]
    /\ outbound = [r \in Reqs |-> [u \in Urls |-> 0]]
    /\ ngot = [r \in Reqs |-> 0]
    /\ lastgot = [r \in Reqs |-> NoResp]
    /\ seen = [r \in Reqs |-> {}]
    /\ creds = [r \in Reqs |-> {}]
    /\ tn = [r \in Reqs |-> 0]
    /\ turl = [r \in Reqs |-> [i \in Tasks |-> None]]
    /\ tstate = [r \in Reqs |-> [i \in Tasks |-> None]]
    /\ tres = [r \in Reqs |-> [i \in Tasks |-> NoResp]]
    /\ order = [r \in Reqs |-> <<>>]
    /\ fpj = [r \in Reqs |-> 0]
    /\ results = [r \in Reqs |-> <<>>]
    /\ fpexc = [r \in Reqs |-> FALSE]
    /\ fpret = [r \in Reqs |-> None]
    /\ outcome = [r \in Reqs |-> None]
    /\ hpc = "idle"
    /\ hmethod = None
    /\ hkw = <<>>
    /\ hretries = 0
    /\ hsent = 0
    /\ hstatuses = <<>>
    /\ hresp = 0
    /\ lpc = "start"
    /\ bus_available = FALSE
    /\ busSubscribed = FALSE
    /\ busFailed = FALSE
    /\ busShutdown = FALSE
    /\ active_connections = <<>>
    /\ wstate = [c \in Conns |-> "new"]
    /\ bpc = "idle"
    /\ bidx = 0
    /\ bcur = 0
    /\ bstart = {}
    /\ battempted = {}
    /\ bfailed = {}
    /\ delivered = [c \in Conns |-> 0]
    /\ nb = 0
    /\ wreg = [c \in Conns |-> 0]
    /\ removed = [c \in Conns |-> 0]
    /\ dstart = [c \in Conns |-> 0]
    /\ spos = [c \in Conns |-> "recv"]
    /\ data = [c \in Conns |-> None]
    /\ inbox = [c \in Conns |-> <<>>]
    /\ rcvd = [c \in Conns |-> <<>>]
    /\ acks = [c \in Conns |-> <<>>]
    /\ nmsg = 0
    /\ dargs = <<>>
    /\ draised = FALSE
    /\ query = <<>>
    /\ vres = None
    /\ vout = <<>>
    /\ checks = [d \in Dependencies |-> None]
    /\ health_status = None
    /\ writes = [r \in Reqs |-> <<>>]
    /\ inreq = [r \in Reqs |-> [admitted |-> FALSE, bearer |-> FALSE, valid |-> FALSE]]

NextRL ==
    \E key \in Keys, dt \in Steps : IsAllowed(key, dt)

\* the limiter called from the single event-loop thread
SpecRL == Init /\ [][NextRL]_vars

(***************************************************************************)
(* is_allowed called from several threads: the class takes no lock, so the *)
(* interpreter may switch threads between the statements of lines 64-75.   *)
(***************************************************************************)
\* line 64: now = time.time()
TCall(t, key, dt) ==
    /\ tpc[t] = "idle"
    /\ calls < MaxThreadCalls
    /\ clock' = clock + dt
    /\ tnow' = [tnow EXCEPT ![t] = clock + dt]
    /\ tkey' = [tkey EXCEPT ![t] = key]
    /\ tpc' = [tpc EXCEPT ![t] = "cleanup"]
    /\ calls' = calls + 1
    /\ UNCHANGED <<requests, last_cleanup, ret, lastKey, swept, log, denied, ttmp>>
    /\ UNCHANGED <<rqVars, fpVars, xVars>>

\* line 65: self._maybe_cleanup(now)
TCleanup(t) ==
    /\ tpc[t] = "cleanup"
    /\ LET c == maybe_cleanup(requests, last_cleanup, tnow[t])
       IN  /\ requests' = c.requests
           /\ last_cleanup' = c.last_cleanup
           /\ swept' = c.ran
    /\ tpc' = [tpc EXCEPT ![t] = "prune"]
    /\ UNCHANGED <<clock, ret, lastKey, calls, log, denied, tkey, tnow, ttmp>>
    /\ UNCHANGED <<rqVars, fpVars, xVars>>

\* line 69, right-hand side: the list comprehension over self._requests[key]
TPrune(t) ==
    /\ tpc[t] = "prune"
    /\ ttmp' = [ttmp EXCEPT ![t] =
                  Prune(Lookup(requests, tkey[t]), tnow[t] - WindowSeconds)]
    /\ requests' = Store(requests, tkey[t], Lookup(requests, tkey[t]))
    /\ tpc' = [tpc EXCEPT ![t] = "store"]
    /\ UNCHANGED <<clock, last_cleanup, ret, lastKey, swept, calls, log, denied,
                   tkey, tnow, rqVars, fpVars, xVars>>

\* line 69, the assignment self._requests[key] = ...
TStore(t) ==
    /\ tpc[t] = "store"
    /\ requests' = Store(requests, tkey[t], ttmp[t])
    /\ tpc' = [tpc EXCEPT ![t] = "check"]
    /\ UNCHANGED <<clock, last_cleanup, ret, lastKey, swept, calls, log, denied,
                   tkey, tnow, ttmp, rqVars, fpVars, xVars>>

\* lines 71-72: the length test and return False
TCheck(t) ==
    /\ tpc[t] = "check"
    /\ requests' = Store(requests, tkey[t], Lookup(requests, tkey[t]))
    /\ IF Full(Lookup(requests, tkey[t]))
       THEN /\ tpc' = [tpc EXCEPT ![t] = "idle"]
            /\ ret' = "denied"
            /\ lastKey' = tkey[t]
            /\ denied' = denied \cup {tkey[t]}
       ELSE /\ tpc' = [tpc EXCEPT ![t] = "append"]
            /\ UNCHANGED <<ret, lastKey, denied>>
    /\ UNCHANGED <<clock, last_cleanup, swept, calls, log, tkey, tnow, ttmp>>
    /\ UNCHANGED <<rqVars, fpVars, xVars>>

\* lines 74-75: append(now) and return True
TAppend(t) ==
    /\ tpc[t] = "append"
    /\ requests' = Store(requests, tkey[t],
                         Append(Lookup(requests, tkey[t]), tnow[t]))
    /\ log' = Append(log, <<tkey[t], tnow[t]>>)
    /\ ret' = "allowed"
    /\ lastKey' = tkey[t]
    /\ tpc' = [tpc EXCEPT ![t] = "idle"]
    /\ UNCHANGED <<clock, last_cleanup, swept, calls, denied, tkey, tnow, ttmp>>
    /\ UNCHANGED <<rqVars, fpVars, xVars>>

NextRLConc ==
    \E t \in Threads :
        \/ \E key \in Keys, dt \in ThreadSteps : TCall(t, key, dt)
        \/ TCleanup(t)
        \/ TPrune(t)
        \/ TStore(t)
        \/ TCheck(t)
        \/ TAppend(t)

\* the limiter called from several threads at once
SpecRLConc == Init /\ [][NextRLConc]_vars

(***************************************************************************)
(* Request-scoped credential and GET cache (http_client.py)                *)
(***************************************************************************)
\* a module-level global instead of a ContextVar: the value shows in every context
set_request_token_global(c, id, token) ==
    [x \in DOMAIN c |-> [c[x] EXCEPT !.token = token]]

\* set_request_token(token): _request_token.set(token) in the current context
set_request_token(c, id, token) ==
    [c EXCEPT ![id].token = token]

\* init_request_cache(): _request_cache.set({}); dict is the new dict object
init_request_cache(c, id, dict) ==
    [c EXCEPT ![id].cache = dict]

\* clear_request_cache(): _request_cache.set(None)
clear_request_cache(c, id) ==
    [c EXCEPT ![id].cache = None]

\* the Authorization header built from a token (none when no token is set)
Authorization(token) ==
    CASE token = "tokA" -> "Bearer tokA"
      [] token = "tokB" -> "Bearer tokB"
      [] OTHER -> None

\* get_auth_headers(): use_token = _request_token.get() in the current context
get_auth_headers(c, id) ==
    Authorization(c[id].token)

\* cache[url] = response
Put(dict, url, response) ==
    [u \in DOMAIN dict \cup {url} |-> IF u = url THEN response ELSE dict[u]]

\* a get that never consults the cache
cache_hit_never(c, h, id, url) ==
    FALSE

\* get, lines 112-113: cache is not None and url in cache
cache_hit(c, h, id, url) ==
    c[id].cache # None /\ url \in DOMAIN h[c[id].cache]

\* get, lines 116-117: if cache is not None and response.ok: cache[url] = response
cache_store(c, h, id, url, response) ==
    IF c[id].cache # None /\ response.ok
    THEN [h EXCEPT ![c[id].cache] = Put(h[c[id].cache], url, response)]
    ELSE h

\* get() of request r returns response: the history of what r was handed
Hand(r, response) ==
    /\ ngot' = [ngot EXCEPT ![r] = @ + 1]
    /\ lastgot' = [lastgot EXCEPT ![r] = response]
    /\ seen' = [seen EXCEPT ![r] = @ \cup {<<response.by, response.auth>>}]

\* number of outbound calls request r issued so far
Issued(r) ==
    LET Sum[U \in SUBSET Urls] ==
            IF U = {} THEN 0
            ELSE LET u == CHOOSE x \in U : TRUE IN outbound[r][u] + Sum[U \ {u}]
    IN  Sum[Urls]

(***************************************************************************)
(* Endpoint handlers (API.py 363-540)                                      *)
(***************************************************************************)
\* the client address of a request: request.client.host
Addr(r) == "ip1"

\* a middleware that logs the rejection and still calls the route
rate_limit_middleware_log_only(allowed) ==
    [pc |-> "deps", outcome |-> None]

\* rate_limit_middleware (205-218): return the 429 response when is_allowed
\* says no, else await call_next(request)
rate_limit_middleware(allowed) ==
    IF allowed THEN [pc |-> "deps", outcome |-> None]
    ELSE [pc |-> "done", outcome |-> "429"]

\* an inbound request reaches the middleware dt after the previous clock value
Middleware(r, dt) ==
    /\ pc[r] = "idle"
    /\ LET now == clock + dt
           a == is_allowed(requests, last_cleanup, Addr(r), now)
           m == rate_limit_middleware(a.result)
       IN  /\ clock' = now
           /\ requests' = a.requests
           /\ last_cleanup' = a.last_cleanup
           /\ swept' = a.ran
           /\ ret' = IF a.result THEN "allowed" ELSE "denied"
           /\ lastKey' = Addr(r)
           /\ calls' = calls + 1
           /\ log' = IF a.result THEN Append(log, <<Addr(r), now>>) ELSE log
           /\ denied' = IF a.result THEN denied ELSE denied \cup {Addr(r)}
           /\ inreq' = [inreq EXCEPT ![r].admitted = a.result]
           /\ pc' = [pc EXCEPT ![r] = m.pc]
           /\ outcome' = [outcome EXCEPT ![r] = m.outcome]
    /\ UNCHANGED <<ep, ctx, heap, nops, pend, outbound, ngot, lastgot, seen, creds>>
    /\ UNCHANGED <<thVars, fpVars, httpVars, wsVars, stVars, valVars, hcVars, wrVars>>

\* the route's parameters are resolved before the handler is called:
\* get_token through HTTPBearer(auto_error=True) answers 403 without a bearer
\* credential (227-232), then an invalid body or query answers 422
Resolve(r, bearer, valid) ==
    /\ pc[r] = "deps"
    /\ inreq' = [inreq EXCEPT ![r].bearer = bearer, ![r].valid = valid]
    /\ pc' = [pc EXCEPT ![r] = IF bearer /\ valid THEN "ready" ELSE "done"]
    /\ outcome' = [outcome EXCEPT ![r] =
                     IF ~bearer THEN "403" ELSE IF ~valid THEN "422" ELSE @]
    /\ UNCHANGED <<ep, ctx, heap, nops, pend, outbound, ngot, lastgot, seen, creds>>
    /\ UNCHANGED <<rlVars, thVars, fpVars, httpVars, wsVars, stVars, valVars, hcVars, wrVars>>

\* the framework calls the handler of endpoint e in a fresh context
Begin(r, e) ==
    /\ pc[r] = "ready"
    /\ ep' = [ep EXCEPT ![r] = e]
    /\ pc' = [pc EXCEPT ![r] = IF e = "predict" THEN "body" ELSE "attach"]
    /\ UNCHANGED <<ctx, heap, nops, pend, outbound, ngot, lastgot, seen, creds, outcome, rlVars, thVars, xVars, fpVars>>

\* set_request_token(token), first statement of the handler
Attach(r) ==
    /\ pc[r] = "attach"
    /\ ctx' = set_request_token(ctx, <<r, 0>>, Token(r))
    /\ pc' = [pc EXCEPT ![r] = "init"]
    /\ UNCHANGED <<ep, heap, nops, pend, outbound, ngot, lastgot, seen, creds, outcome, rlVars, thVars, xVars, fpVars>>

\* init_request_cache(), second statement of the handler
InitCache(r) ==
    /\ pc[r] = "init"
    /\ ctx' = init_request_cache(ctx, <<r, 0>>, r)
    /\ heap' = [heap EXCEPT ![r] = <<>>]
    /\ pc' = [pc EXCEPT ![r] = IF ep[r] = "validate" THEN "import" ELSE "body"]
    /\ UNCHANGED <<ep, nops, pend, outbound, ngot, lastgot, seen, creds, outcome, rlVars, thVars, xVars, fpVars>>

\* mcp_execution_validate line 502: the import placed before the try block
Import(r, ok) ==
    /\ pc[r] = "import"
    /\ pc' = [pc EXCEPT ![r] = IF ok THEN "body" ELSE "done"]
    /\ outcome' = [outcome EXCEPT ![r] = IF ok THEN None ELSE "aborted"]
    /\ UNCHANGED <<ep, ctx, heap, nops, pend, outbound, ngot, lastgot, seen, creds, rlVars, thVars, xVars, fpVars>>

\* the tool logic calls get(url) on the handler's thread: cache test, then send
GetStart(r, url) ==
    /\ pc[r] = "body"
    /\ nops[r] < MaxOps
    /\ IF cache_hit(ctx, heap, <<r, 0>>, url)
       THEN /\ Hand(r, heap[ctx[<<r, 0>>].cache][url])
            /\ nops' = [nops EXCEPT ![r] = @ + 1]
            /\ UNCHANGED <<pc, pend, outbound, creds>>
       ELSE /\ pend' = [pend EXCEPT ![r] =
                         [url |-> url, auth |-> get_auth_headers(ctx, <<r, 0>>),
                          ok |-> FALSE, by |-> r, id |-> Issued(r) + 1]]
            /\ creds' = [creds EXCEPT ![r] = @ \cup {ctx[<<r, 0>>].token}]
            /\ outbound' = [outbound EXCEPT ![r][url] = @ + 1]
            /\ pc' = [pc EXCEPT ![r] = "get_wait"]
            /\ UNCHANGED <<ngot, lastgot, seen, nops>>
    /\ UNCHANGED <<ep, ctx, heap, outcome, rlVars, thVars, xVars, fpVars>>

\* the backend answers the handler's get: store when ok, return the response
GetFinish(r, ok) ==
    /\ pc[r] = "get_wait"
    /\ LET response == [pend[r] EXCEPT !.ok = ok]
       IN  /\ heap' = cache_store(ctx, heap, <<r, 0>>, response.url, response)
           /\ Hand(r, response)
    /\ pend' = [pend EXCEPT ![r] = NoResp]
    /\ nops' = [nops EXCEPT ![r] = @ + 1]
    /\ pc' = [pc EXCEPT ![r] = "body"]
    /\ UNCHANGED <<ep, ctx, outbound, creds, outcome, rlVars, thVars, xVars, fpVars>>

\* a write that drops the cached response of the url it writes to
cache_after_write_invalidates(c, h, id, url) ==
    IF c[id].cache # None /\ url \in DOMAIN h[c[id].cache]
    THEN [h EXCEPT ![c[id].cache] = [u \in DOMAIN @ \ {url} |-> @[u]]]
    ELSE h

\* post / put / delete (121-130): _session.post(url, headers=_merge_headers(
\* headers), ...) and nothing else; _request_cache is neither read nor written
cache_after_write(c, h, id, url) ==
    h

\* the methods of the write helpers
WriteMethods == {"POST", "PUT", "DELETE"}

\* the tool logic calls post, put or delete on the handler's thread, which
\* waits for the backend's answer: the call is sent with the merged headers
Write(r, m, url) ==
    /\ pc[r] = "body"
    /\ Len(writes[r]) < MaxWrites
    /\ writes' = [writes EXCEPT ![r] = Append(@, [method |-> m, url |-> url, auth |-> get_auth_headers(ctx, <<r, 0>>),
                              after |-> ngot[r]])]
    /\ heap' = cache_after_write(ctx, heap, <<r, 0>>, url)
    /\ UNCHANGED <<pc, ep, ctx, nops, pend, outbound, ngot, lastgot, seen, creds, outcome>>
    /\ UNCHANGED <<rlVars, thVars, fpVars, httpVars, wsVars, stVars, valVars, hcVars, adVars>>

\* the agent or tool logic returns: the handler returns its result
Return(r) ==
    /\ pc[r] = "body"
    /\ outcome' = [outcome EXCEPT ![r] = "returned"]
    /\ pc' = [pc EXCEPT ![r] = IF ep[r] = "predict" THEN "done" ELSE "finally"]
    /\ UNCHANGED <<ep, ctx, heap, nops, pend, outbound, ngot, lastgot, seen, creds, rlVars, thVars, xVars, fpVars>>

\* the agent or tool logic raises: the except clause of the handler takes it
Raise(r) ==
    /\ pc[r] = "body"
    /\ outcome' = [outcome EXCEPT ![r] = "raised"]
    /\ pc' = [pc EXCEPT ![r] = IF ep[r] = "predict" THEN "done" ELSE "finally"]
    /\ UNCHANGED <<ep, ctx, heap, nops, pend, outbound, ngot, lastgot, seen, creds, rlVars, thVars, xVars, fpVars>>

\* finally: clear_request_cache()
ClearCache(r) ==
    /\ pc[r] = "finally"
    /\ ctx' = clear_request_cache(ctx, <<r, 0>>)
    /\ pc' = [pc EXCEPT ![r] = "reset"]
    /\ UNCHANGED <<ep, heap, nops, pend, outbound, ngot, lastgot, seen, creds, outcome, rlVars, thVars, xVars, fpVars>>

\* finally: set_request_token(None)
ResetToken(r) ==
    /\ pc[r] = "reset"
    /\ ctx' = set_request_token(ctx, <<r, 0>>, None)
    /\ pc' = [pc EXCEPT ![r] = "done"]
    /\ UNCHANGED <<ep, heap, nops, pend, outbound, ngot, lastgot, seen, creds, outcome, rlVars, thVars, xVars, fpVars>>

(***************************************************************************)
(* _fetch_parallel (tools/investment_strategy_tools.py 149-161)            *)
(***************************************************************************)
\* worker threads that run the callables without ctx.run: each starts empty
copy_context_lost(c, r, n) ==
    [x \in DOMAIN c |-> IF x[1] = r /\ x[2] \in 1..n THEN EmptyCtx ELSE c[x]]

\* contexts = [contextvars.copy_context() for _ in funcs]: shallow copies, the
\* copy of _request_cache refers to the caller's dict object
copy_context(c, r, n) ==
    [x \in DOMAIN c |-> IF x[1] = r /\ x[2] \in 1..n THEN c[<<r, 0>>] ELSE c[x]]

\* the context a callable runs in: the caller's when run in-line (line 157),
\* its own copy when submitted with ctx.run (line 160)
TaskCtx(r, i) ==
    IF tn[r] <= 1 THEN <<r, 0>> ELSE <<r, i>>

\* results collected as the futures complete
NextToJoinCompleted(j, done) ==
    IF j <= Len(done) THEN done[j] ELSE 0

\* [f.result() for f in futures]: the j-th future joined is the j-th submitted
NextToJoin(j, done) ==
    j

Min(a, b) == IF a <= b THEN a ELSE b

Running(r) ==
    {i \in 1..tn[r] : tstate[r][i] = "running"}

Finished(r) ==
    {i \in 1..tn[r] : tstate[r][i] \in {"done", "raised"}}

\* the tool logic calls _fetch_parallel(*funcs) with n callables, each reading
\* one url through _fetch_json
FetchParallel(r, n, urls) ==
    /\ pc[r] = "body"
    /\ nops[r] < MaxOps
    /\ tn' = [tn EXCEPT ![r] = n]
    /\ turl' = [turl EXCEPT ![r] = [i \in Tasks |-> IF i <= n THEN urls[i] ELSE None]]
    /\ tstate' = [tstate EXCEPT ![r] = [i \in Tasks |-> IF i <= n THEN "queued" ELSE None]]
    /\ tres' = [tres EXCEPT ![r] = [i \in Tasks |-> NoResp]]
    /\ order' = [order EXCEPT ![r] = <<>>]
    /\ fpj' = [fpj EXCEPT ![r] = 0]
    /\ results' = [results EXCEPT ![r] = <<>>]
    /\ fpexc' = [fpexc EXCEPT ![r] = FALSE]
    /\ fpret' = [fpret EXCEPT ![r] = None]
    /\ ctx' = IF n <= 1 THEN ctx ELSE copy_context(ctx, r, n)
    /\ nops' = [nops EXCEPT ![r] = @ + 1]
    /\ pc' = [pc EXCEPT ![r] = "fp"]
    /\ UNCHANGED <<ep, heap, pend, outbound, ngot, lastgot, seen, creds, outcome, rlVars, thVars, xVars>>

\* a worker takes the next queued callable (at most min(len(funcs), 6) run at
\* once); the callable calls get(url): cache test, then send
TaskStart(r, i) ==
    /\ pc[r] = "fp"
    /\ i \in 1..tn[r]
    /\ tstate[r][i] = "queued"
    /\ \A j \in 1..(i - 1) : tstate[r][j] # "queued"
    /\ Cardinality(Running(r)) < Min(tn[r], MaxWorkers)
    /\ tn[r] <= 1 => ~fpexc[r]
    /\ IF cache_hit(ctx, heap, TaskCtx(r, i), turl[r][i])
       THEN /\ tres' = [tres EXCEPT ![r][i] = heap[ctx[TaskCtx(r, i)].cache][turl[r][i]]]
            /\ tstate' = [tstate EXCEPT ![r][i] = "done"]
            /\ Hand(r, heap[ctx[TaskCtx(r, i)].cache][turl[r][i]])
            /\ order' = [order EXCEPT ![r] = Append(@, i)]
            /\ UNCHANGED <<outbound, creds>>
       ELSE /\ tres' = [tres EXCEPT ![r][i] =
                         [url |-> turl[r][i], auth |-> get_auth_headers(ctx, TaskCtx(r, i)),
                          ok |-> FALSE, by |-> r, id |-> Issued(r) + 1]]
            /\ tstate' = [tstate EXCEPT ![r][i] = "running"]
            /\ creds' = [creds EXCEPT ![r] = @ \cup {ctx[TaskCtx(r, i)].token}]
            /\ outbound' = [outbound EXCEPT ![r][turl[r][i]] = @ + 1]
            /\ UNCHANGED <<ngot, lastgot, seen, order>>
    /\ UNCHANGED <<pc, ep, ctx, heap, nops, pend, outcome, tn, turl, fpj, results,
                   fpexc, fpret, rlVars, thVars, xVars>>

\* the backend answers the callable's get: store when ok; _fetch_json returns
\* the response, or raises through raise_for_status when it is not ok
TaskFinish(r, i, ok) ==
    /\ pc[r] = "fp"
    /\ i \in 1..tn[r]
    /\ tstate[r][i] = "running"
    /\ LET response == [tres[r][i] EXCEPT !.ok = ok]
       IN  /\ heap' = cache_store(ctx, heap, TaskCtx(r, i), response.url, response)
           /\ Hand(r, response)
           /\ tres' = [tres EXCEPT ![r][i] = response]
    /\ tstate' = [tstate EXCEPT ![r][i] = IF ok THEN "done" ELSE "raised"]
    /\ order' = [order EXCEPT ![r] = Append(@, i)]
    /\ UNCHANGED <<pc, ep, ctx, nops, pend, outbound, creds, outcome, tn, turl, fpj,
                   results, fpexc, fpret, rlVars, thVars, xVars>>

\* the backend answers the get of a callable that wraps _fetch_json in
\* try/except (_get_preferences, _get_dashboard, ...: lines 55-111) with a
\* failure: nothing is stored, raise_for_status raises, the except clause
\* returns the default value and the callable ends normally
TaskFinishCaught(r, i) ==
    /\ pc[r] = "fp"
    /\ i \in 1..tn[r]
    /\ tstate[r][i] = "running"
    /\ LET response == [tres[r][i] EXCEPT !.ok = FALSE]
       IN  /\ heap' = cache_store(ctx, heap, TaskCtx(r, i), response.url, response)
           /\ Hand(r, response)
           /\ tres' = [tres EXCEPT ![r][i] = response]
    /\ tstate' = [tstate EXCEPT ![r][i] = "done"]
    /\ order' = [order EXCEPT ![r] = Append(@, i)]
    /\ UNCHANGED <<pc, ep, ctx, nops, pend, outbound, creds, outcome, tn, turl, fpj,
                   results, fpexc, fpret, rlVars, thVars, xVars>>

\* f.result() of the next future: its value is appended, or its exception leaves
\* the list comprehension
Join(r) ==
    /\ pc[r] = "fp"
    /\ ~fpexc[r]
    /\ fpj[r] < tn[r]
    /\ LET k == NextToJoin(fpj[r] + 1, order[r])
       IN  /\ k \in Finished(r)
           /\ IF tstate[r][k] = "done"
              THEN /\ results' = [results EXCEPT ![r] = Append(@, tres[r][k])]
                   /\ fpj' = [fpj EXCEPT ![r] = @ + 1]
                   /\ UNCHANGED fpexc
              ELSE /\ fpexc' = [fpexc EXCEPT ![r] = TRUE]
                   /\ UNCHANGED <<results, fpj>>
    /\ UNCHANGED <<rqVars, tn, turl, tstate, tres, order, fpret, rlVars, thVars, xVars>>

\* a pool that is left without waiting: shutdown(wait=False)
shutdown_nowait(n, finished) ==
    TRUE

\* leaving "with ThreadPoolExecutor(...) as pool" (158-161), by return or by
\* exception, calls pool.shutdown(wait=True): it blocks until each of the n
\* submitted callables has finished
shutdown_wait(n, finished) ==
    finished = 1..n

\* the with block ends (shutdown waits for every submitted callable), then
\* _fetch_parallel returns the list or lets the exception out to the handler;
\* its futures and contexts are gone with it
FPExit(r) ==
    /\ pc[r] = "fp"
    /\ fpexc[r] \/ fpj[r] = tn[r]
    /\ tn[r] >= 2 => shutdown_wait(tn[r], Finished(r))
    /\ fpret' = [fpret EXCEPT ![r] = IF fpexc[r] THEN "raised" ELSE "returned"]
    /\ outcome' = [outcome EXCEPT ![r] = IF fpexc[r] THEN "raised" ELSE @]
    /\ pc' = [pc EXCEPT ![r] =
                IF ~fpexc[r] THEN "body"
                ELSE IF ep[r] = "predict" THEN "done" ELSE "finally"]
    /\ tn' = [tn EXCEPT ![r] = 0]
    /\ turl' = [turl EXCEPT ![r] = [i \in Tasks |-> None]]
    /\ tstate' = [tstate EXCEPT ![r] = [i \in Tasks |-> None]]
    /\ tres' = [tres EXCEPT ![r] = [i \in Tasks |-> NoResp]]
    /\ order' = [order EXCEPT ![r] = <<>>]
    /\ fpj' = [fpj EXCEPT ![r] = 0]
    /\ fpexc' = [fpexc EXCEPT ![r] = FALSE]
    /\ results' = [results EXCEPT ![r] = IF fpexc[r] THEN <<>> ELSE @]
    /\ ctx' = [x \in CtxIds |-> IF x[1] = r /\ x[2] > 0 THEN EmptyCtx ELSE ctx[x]]
    /\ UNCHANGED <<ep, heap, nops, pend, outbound, ngot, lastgot, seen, creds,
                   rlVars, thVars, xVars>>

\* one step of the request r: I, E, U, N, OK are the <<bearer, valid>> pairs
\* the request may come with, and the endpoints, the urls, the numbers of
\* callables and the backend answers the step may draw from
HandlerStep(r, I, E, U, N, OK) ==
    \/ Middleware(r, 0)
    \/ \E x \in I : Resolve(r, x[1], x[2])
    \/ \E e \in E : Begin(r, e)
    \/ Attach(r)
    \/ InitCache(r)
    \/ \E ok \in BOOLEAN : Import(r, ok)
    \/ \E url \in U : GetStart(r, url)
    \/ \E ok \in OK : GetFinish(r, ok)
    \/ \E n \in N : \E urls \in [1..n -> U] : FetchParallel(r, n, urls)
    \/ \E i \in Tasks : TaskStart(r, i)
    \/ \E i \in Tasks, ok \in OK : TaskFinish(r, i, ok)
    \/ Join(r)
    \/ FPExit(r)
    \/ Return(r)
    \/ Raise(r)
    \/ ClearCache(r)
    \/ ResetToken(r)

Next ==
    HandlerStep("A", BOOLEAN \X BOOLEAN, Endpoints, Urls, 0..MaxTasks, BOOLEAN)

\* one inbound request, on any endpoint, with every fan-out and backend answer
Spec == Init /\ [][Next]_vars

NextWrite ==
    \/ Middleware("A", 0)
    \/ Resolve("A", TRUE, TRUE)
    \/ \E e \in Endpoints : Begin("A", e)
    \/ Attach("A")
    \/ InitCache("A")
    \/ \E ok \in BOOLEAN : Import("A", ok)
    \/ \E url \in Urls : GetStart("A", url)
    \/ \E ok \in BOOLEAN : GetFinish("A", ok)
    \/ \E m \in WriteMethods, url \in Urls : Write("A", m, url)
    \/ Return("A")
    \/ Raise("A")
    \/ ClearCache("A")
    \/ ResetToken("A")

\* one inbound request whose tool logic reads and writes
SpecWrite == Init /\ [][NextWrite]_vars

NextCatch ==
    \/ Next
    \/ \E i \in Tasks : TaskFinishCaught("A", i)

\* one inbound request whose callables may absorb the failure of their read
SpecCatch == Init /\ [][NextCatch]_vars

NextIso ==
    \E r \in Reqs :
        HandlerStep(r, {<<TRUE, TRUE>>}, {"agent", "validate"}, {"/holdings"}, {2}, {TRUE})

\* two inbound requests served at the same time, reading the same url
SpecIso == Init /\ [][NextIso]_vars

\* an inbound request on an agent endpoint among other calls from its address
NextAdmit ==
    \/ \E dt \in {0, 1} : IsAllowed(Addr("A"), dt)
    \/ \E dt \in {0, 1} : Middleware("A", dt)
    \/ \E bearer \in BOOLEAN, valid \in BOOLEAN : Resolve("A", bearer, valid)
    \/ \E e \in Endpoints : Begin("A", e)
    \/ Attach("A")
    \/ InitCache("A")
    \/ \E ok \in BOOLEAN : Import("A", ok)
    \/ \E url \in Urls : GetStart("A", url)
    \/ \E ok \in BOOLEAN : GetFinish("A", ok)
    \/ Return("A")
    \/ Raise("A")
    \/ ClearCache("A")
    \/ ResetToken("A")

SpecAdmit == Init /\ [][NextAdmit]_vars

(***************************************************************************)
(* Claims about the RateLimiter                                            *)
(***************************************************************************)
\* number of admitted calls of key with a timestamp in (lo, hi]
CountIn(key, lo, hi) ==
    Cardinality({i \in 1..Len(log) : log[i][1] = key /\ lo < log[i][2] /\ log[i][2] <= hi})

\* the admitted calls that precede the latest call
PriorLog ==
    IF ret = "allowed" THEN SubSeq(log, 1, Len(log) - 1) ELSE log

\* admitted calls of the latest call's key, made before it, still inside its window
PriorInWindow ==
    {i \in 1..Len(PriorLog) :
        PriorLog[i][1] = lastKey /\ PriorLog[i][2] > clock - WindowSeconds}

\* C1: under a non-decreasing clock no trailing window of window_seconds holds
\* more than max_requests admitted calls of one key, and a call that finds
\* max_requests admitted calls inside its window returns false.
C1_WindowBound ==
    /\ \A i \in 1..Len(log) :
          CountIn(log[i][1], log[i][2] - WindowSeconds, log[i][2]) <= MaxRequests
    /\ (ret # None /\ Cardinality(PriorInWindow) >= MaxRequests) => ret = "denied"

C1_Witness ==
    /\ ret = "denied"
    /\ CountIn(lastKey, clock - WindowSeconds, clock) = MaxRequests

\* C2: a call made at least window_seconds after the most recent admitted
\* timestamp of its key returns true, whatever was admitted or rejected before.
C2_SlidesNotSticky ==
    (ret # None /\ PriorInWindow = {}) => ret = "allowed"

C2_Witness ==
    /\ ret = "allowed"
    /\ lastKey \in denied
    /\ PriorInWindow = {}
    /\ \E i \in 1..Len(PriorLog) : PriorLog[i] = <<lastKey, clock - WindowSeconds>>

\* a step that is an is_allowed call returning false
RejectedCall ==
    calls' = calls + 1 /\ ret' = "denied"

\* C4 as stated: a call that returns false leaves the whole limiter state
\* unchanged (no entry created or removed, last-sweep marker not advanced).
C4_RejectionChangesNothing ==
    [][RejectedCall => (requests' = requests /\ last_cleanup' = last_cleanup)]_vars

\* C4 amended: a call that returns false records no timestamp and changes no
\* key's list; the only state it may change is by the periodic sweep, which
\* advances the last-sweep marker and removes keys with no timestamp in the window.
C4_RejectionRecordsNothing ==
    [][RejectedCall =>
        /\ log' = log
        /\ ~swept' => (requests' = requests /\ last_cleanup' = last_cleanup)
        /\ swept' =>
              /\ last_cleanup' = clock'
              /\ DOMAIN requests' \subseteq DOMAIN requests
              /\ \A k \in DOMAIN requests :
                    IF k \in DOMAIN requests'
                    THEN requests'[k] = requests[k]
                    ELSE Prune(requests[k], clock' - WindowSeconds) = <<>>]_vars

C4_Witness ==
    /\ ret = "denied"
    /\ swept
    /\ last_cleanup > SweepInterval
    /\ \E i \in 1..Len(log) : log[i][1] \notin DOMAIN requests

\* the admitted timestamps of key inside the window ending at the clock
LoggedInWindow(key) ==
    {i \in 1..Len(log) : log[i][1] = key /\ log[i][2] > clock - WindowSeconds}

StoredInWindow(key) ==
    {i \in 1..Len(Lookup(requests, key)) :
        Lookup(requests, key)[i] > clock - WindowSeconds}

\* the timestamps of the calls of key that returned True, oldest first
AdmittedOf(key) ==
    LET own == SelectSeq(log, LAMBDA e : e[1] = key)
    IN  [i \in 1..Len(own) |-> own[i][2]]

\* is_allowed(key) of a limiter whose _maybe_cleanup never removes a key: it
\* prunes the timestamps it admitted for the key and tests the length
is_allowed_never_sweeps(key, now) ==
    ~Full(Prune(AdmittedOf(key), now - WindowSeconds))

\* C22: the stale-key sweep never changes an answer: every call of is_allowed
\* returns what a limiter that never sweeps returns for the same sequence of
\* calls, because a swept key has no timestamp inside the current window.
C22_SweepChangesNoAnswer ==
    [][calls' = calls + 1 =>
          /\ (ret' = "allowed") = is_allowed_never_sweeps(lastKey', clock')
          /\ \A k \in Keys \ DOMAIN requests' :
                Prune(AdmittedOf(k), clock' - WindowSeconds) = <<>>]_vars

C22_Witness ==
    /\ swept
    /\ ret = "denied"
    /\ \E k \in Keys : AdmittedOf(k) # <<>> /\ k \notin DOMAIN requests

\* C3: when is_allowed calls for one key interleave, the admitted timestamps
\* inside a window never exceed max_requests and no admitted timestamp is lost
\* (once no call is in progress every admitted in-window timestamp is stored).
C3_NoRace ==
    /\ \A i \in 1..Len(log) :
          CountIn(log[i][1], log[i][2] - WindowSeconds, log[i][2]) <= MaxRequests
    /\ (\A t \in Threads : tpc[t] = "idle") =>
          \A k \in Keys : Cardinality(LoggedInWindow(k)) <= Cardinality(StoredInWindow(k))

\* the two halves of C3, each refuted on its own
C3_NoOverAdmission ==
    \A i \in 1..Len(log) :
        CountIn(log[i][1], log[i][2] - WindowSeconds, log[i][2]) <= MaxRequests

C3_NoLostTimestamp ==
    (\A t \in Threads : tpc[t] = "idle") =>
        \A k \in Keys : Cardinality(LoggedInWindow(k)) <= Cardinality(StoredInWindow(k))

(***************************************************************************)
(* Claims about the request context, the GET cache and _fetch_parallel     *)
(***************************************************************************)
\* the dict the handler's context refers to (none when the cache is disabled)
CacheOf(r) ==
    ctx[<<r, 0>>].cache

\* outbound GET calls of request r that were sent and are not answered yet
InFlight(r) ==
    (IF pc[r] = "get_wait" THEN 1 ELSE 0) + Cardinality(Running(r))

\* a get() of request r returns in this step
Returned(r) ==
    ngot'[r] = ngot[r] + 1

LastGot(r) ==
    lastgot'[r]

\* C5: with two requests served at the same time, no credential lookup and no
\* get() in one request or its subtasks returns the other request's credential
\* or a response fetched by the other request, also after the other one has
\* finished and cleared its context.
C5_Isolation ==
    \A r \in Reqs : \A s \in Reqs \ {r} :
        /\ Token(s) \notin creds[r]
        /\ \A x \in seen[r] : x[1] # s /\ x[2] # Authorization(Token(s))
        /\ \A i \in 1..tn[r] : tres[r][i].by # s

C5_Witness ==
    /\ pc["A"] = "done"
    /\ outcome["A"] = "returned"
    /\ "/holdings" \in DOMAIN heap["A"]
    /\ ctx[<<"A", 0>>] = EmptyCtx
    /\ pc["B"] = "fp"
    /\ "/holdings" \in DOMAIN heap["B"]
    /\ \E i \in 1..tn["B"] : tstate["B"][i] = "done" /\ tres["B"][i].id < Issued("B")
    /\ creds["B"] = {"tokB"}

\* C6: with the cache enabled no outbound call is issued for a url the cache
\* holds, a get() of such a url returns the cached response itself, and a
\* successful response is stored when it arrives, so sequential get(url) calls
\* issue one outbound call; with the cache disabled every get() is answered by
\* an outbound call of its own.
C6_CacheMemo ==
    [][\A r \in Reqs :
        /\ \A u \in Urls :
              outbound'[r][u] # outbound[r][u] =>
                  ~(CacheOf(r) # None /\ u \in DOMAIN heap[CacheOf(r)])
        /\ (Returned(r) /\ InFlight(r)' = InFlight(r)) =>
              /\ CacheOf(r) # None
              /\ LastGot(r).url \in DOMAIN heap[CacheOf(r)]
              /\ LastGot(r) = heap[CacheOf(r)][LastGot(r).url]
              /\ outbound' = outbound
        /\ (Returned(r) /\ InFlight(r)' < InFlight(r) /\ LastGot(r).ok /\ CacheOf(r) # None) =>
              /\ LastGot(r).url \in DOMAIN heap'[CacheOf(r)]
              /\ heap'[CacheOf(r)][LastGot(r).url] = LastGot(r)
        /\ ep'[r] = "predict" => Issued(r)' = ngot'[r] + InFlight(r)'
      ]_vars

C6_Witness ==
    /\ pc["A"] = "body"
    /\ CacheOf("A") # None
    /\ fpret["A"] = None
    /\ ngot["A"] = 2
    /\ lastgot["A"].ok
    /\ Issued("A") = 1
    /\ outbound["A"][lastgot["A"].url] = 1

\* C7: with the cache enabled, two subtasks of one _fetch_parallel call that get
\* the same url at overlapping times cause one outbound call for that url: two
\* outbound calls for one url are never in flight together.
C7_OneCallPerUrl ==
    \A r \in Reqs :
        CacheOf(r) # None =>
            \A i \in Running(r) : \A j \in Running(r) :
                turl[r][i] = turl[r][j] => i = j

\* C8: an endpoint that attached a credential and enabled the cache has torn
\* both down when its request has ended, however it ended.
C8_TornDownOnEveryExit ==
    \A r \in Reqs :
        (pc[r] = "done" /\ ep[r] \in {"agent", "validate"}) => ctx[<<r, 0>>] = EmptyCtx

\* the list comprehension of line 161 has joined every future without an exception
Joined(r) ==
    pc[r] = "fp" /\ ~fpexc[r] /\ fpj[r] = tn[r]

\* C9: the list _fetch_parallel returns has one element per callable and its
\* i-th element is the result of the i-th callable, whatever order they
\* finished in.
C9_PositionalResults ==
    [][\A r \in Reqs :
          (pc[r] = "fp" /\ fpret'[r] = "returned") =>
              /\ Joined(r)
              /\ Len(results'[r]) = tn[r]
              /\ \A i \in 1..tn[r] :
                    /\ results'[r][i] = tres[r][i]
                    /\ results'[r][i].url = turl[r][i]]_vars

C9_Witness ==
    /\ Joined("A")
    /\ tn["A"] >= 2
    /\ order["A"][1] = 2
    /\ results["A"][1] # results["A"][2]

\* the Authorization header of the credential the endpoint of r attached
Attached(r) ==
    IF ep[r] \in {"agent", "validate"} THEN Authorization(Token(r)) ELSE None

\* C10: every callable run by _fetch_parallel sees the caller's credential and
\* the caller's own cache dict, and what a callable cached is in the caller's
\* cache after the join, where later get() calls of the request hit it.
C10_TasksSeeCallerContext ==
    \A r \in Reqs :
        /\ pc[r] = "fp" => \A i \in 1..tn[r] : ctx[TaskCtx(r, i)] = ctx[<<r, 0>>]
        /\ \A i \in 1..tn[r] :
              tstate[r][i] \in {"running", "done", "raised"} =>
                  tres[r][i].auth = Attached(r)
        /\ (pc[r] = "fp" /\ CacheOf(r) # None) =>
              \A i \in 1..tn[r] :
                  tstate[r][i] = "done" =>
                      /\ turl[r][i] \in DOMAIN heap[CacheOf(r)]
                      /\ heap[CacheOf(r)][turl[r][i]].ok
        /\ (pc[r] \in {"body", "get_wait"} /\ CacheOf(r) # None) =>
              \A i \in 1..Len(results[r]) :
                  /\ results[r][i].url \in DOMAIN heap[CacheOf(r)]
                  /\ heap[CacheOf(r)][results[r][i].url].ok

C10_Witness ==
    /\ pc["A"] = "body"
    /\ fpret["A"] = "returned"
    /\ Len(results["A"]) >= 2
    /\ ep["A"] = "agent"
    /\ ngot["A"] = Len(results["A"]) + 1
    /\ lastgot["A"] = results["A"][2]
    /\ outbound["A"][lastgot["A"].url] = 1

\* _fetch_parallel of request r leaves: it returns its list or raises
FPLeaves(r) ==
    pc[r] = "fp" /\ pc'[r] # "fp"

\* C11: when a callable passed to _fetch_parallel raises, the caller still
\* obtains the result of every other callable in that callable's own slot:
\* a failing callable never discards a sibling's result.
C11_SiblingResultsKept ==
    [][\A r \in Reqs :
          FPLeaves(r) =>
              \A i \in 1..tn[r] :
                  tstate[r][i] = "done" =>
                      /\ Len(results'[r]) >= i
                      /\ results'[r][i] = tres[r][i]]_vars

(***************************************************************************)
(* get / post / put / delete through the pooled session and its retrying   *)
(* adapter (http_client.py 25-47, 101-130)                                 *)
(***************************************************************************)
\* Retry(total=3, ...)
TotalRetries == 3
\* DEFAULT_TIMEOUT
DEFAULT_TIMEOUT == 15

Methods == {"GET", "POST", "PUT", "DELETE"}
\* status_forcelist and allowed_methods of _retry_strategy
StatusForcelist == {502, 503, 504}
AllowedMethods == {"GET", "POST", "PUT", "DELETE"}

\* what one attempt can come back with: a status, or a network-level failure
Statuses == {200, 404, 500, 502, 503, 504}
NetErr == 0

\* timeout=None: requests waits for the answer without limit
NoLimit == -1

\* the keyword arguments a caller passes: no timeout, a number of seconds, or
\* an explicit timeout=None
NoKwargs == <<>>
TimeoutArgs == {NoLimit, 10, 30}
Kwargs == {NoKwargs} \cup {[k \in {"timeout"} |-> v] : v \in TimeoutArgs}

\* _apply_timeout(kwargs): if "timeout" not in kwargs: kwargs["timeout"] = 15
apply_timeout(kwargs) ==
    IF "timeout" \notin DOMAIN kwargs
    THEN [k \in DOMAIN kwargs \cup {"timeout"} |->
             IF k = "timeout" THEN DEFAULT_TIMEOUT ELSE kwargs[k]]
    ELSE kwargs

\* Retry.is_retry: the method is allowed and the status is in the forcelist
is_retry(method, status) ==
    method \in AllowedMethods /\ status \in StatusForcelist

\* Retry.is_exhausted of the Retry returned by increment(): total < 0
is_exhausted(total) ==
    total < 0

\* raise_on_status=False: an exhausted status retry returns the last response
on_exhausted_status(status) ==
    [pc |-> "returned", resp |-> status]

\* get/post/put/delete(url, **kwargs): the session sends the first attempt
HttpCall(m, kw) ==
    /\ hpc = "idle"
    /\ hmethod' = m
    /\ hkw' = apply_timeout(kw)
    /\ hretries' = TotalRetries
    /\ hsent' = 1
    /\ hstatuses' = <<>>
    /\ hresp' = NetErr
    /\ hpc' = "wait"
    /\ UNCHANGED notHttp

\* the attempt in flight comes back with answer a: the adapter retries it
\* (after the backoff sleep) while the budget lasts, else the call ends
HttpAnswer(a) ==
    /\ hpc = "wait"
    /\ hstatuses' = Append(hstatuses, a)
    /\ IF a = NetErr \/ is_retry(hmethod, a)
       THEN LET total == hretries - 1
            IN  IF is_exhausted(total)
                THEN LET e == IF a = NetErr THEN [pc |-> "raised", resp |-> NetErr]
                              ELSE on_exhausted_status(a)
                     IN  /\ hpc' = e.pc
                         /\ hresp' = e.resp
                         /\ UNCHANGED <<hretries, hsent>>
                ELSE /\ hretries' = total
                     /\ hsent' = hsent + 1
                     /\ UNCHANGED <<hpc, hresp>>
       ELSE /\ hpc' = "returned"
            /\ hresp' = a
            /\ UNCHANGED <<hretries, hsent>>
    /\ UNCHANGED <<hmethod, hkw>>
    /\ UNCHANGED notHttp

NextHttp ==
    \/ \E m \in Methods, kw \in Kwargs : HttpCall(m, kw)
    \/ \E a \in Statuses \cup {NetErr} : HttpAnswer(a)

SpecHttp == Init /\ [][NextHttp]_vars

\* C12: a single get, post, put or delete call sends at most 3 requests to
\* the backend, the first attempt included, however many 502/503/504
\* responses it receives.
C12_AtMostThreeRequests ==
    hsent <= 3

\* the last n answers of the call were all status st
LastAnswers(n, st) ==
    /\ Len(hstatuses) >= n
    /\ \A i \in (Len(hstatuses) - n + 1)..Len(hstatuses) : hstatuses[i] = st

\* C13: a GET whose attempts return 503 three consecutive times has exhausted
\* the retry budget, and the call ends by signalling a failure to its caller,
\* never by returning normally with a response.
C13_ExhaustedSignalsFailure ==
    (hmethod = "GET" /\ LastAnswers(3, 503) /\ hpc # "wait") => hpc = "raised"

\* C20: every outbound call issued through get, post, put or delete carries a
\* finite timeout: the caller's value when one was passed, else the default 15.
C20_FiniteTimeout ==
    hpc # "idle" =>
        /\ "timeout" \in DOMAIN hkw
        /\ hkw["timeout"] \in Nat

(***************************************************************************)
(* lifespan, ConnectionManager and websocket_stream (API.py 121-184,       *)
(* 342-356). Every await is a point where the event loop may run another   *)
(* coroutine.                                                              *)
(***************************************************************************)
Range(f) == {f[i] : i \in DOMAIN f}

\* list.remove(x): the list without the first occurrence of x
Remove(list, x) ==
    LET i == CHOOSE k \in 1..Len(list) : list[k] = x /\ \A j \in 1..(k - 1) : list[j] # x
    IN  SubSeq(list, 1, i - 1) \o SubSeq(list, i + 1, Len(list))

\* a lifespan without the try/except: the exception of the bus leaves startup
on_bus_exception_propagates(pos) ==
    "crashed"

\* except Exception (171-173): log the degradation and go on to the yield
on_bus_exception(pos) ==
    "serving"

\* orchestrator = get_mcp_orchestrator(); await orchestrator.initialize()
LifespanStart ==
    /\ lpc = "start"
    /\ lpc' = "connect"
    /\ UNCHANGED <<bus_available, busSubscribed, busFailed, busShutdown, active_connections,
                   wstate, bpc, bidx, bcur, bstart, battempted, bfailed, delivered, nb, wreg, removed, dstart>>
    /\ UNCHANGED notWs

\* event_bus = get_event_bus(); await event_bus.connect(): it succeeds or raises
BusConnect(ok) ==
    /\ lpc = "connect"
    /\ lpc' = IF ok THEN "subscribe" ELSE on_bus_exception(lpc)
    /\ busFailed' = ~ok
    /\ UNCHANGED <<bus_available, busSubscribed, busShutdown, active_connections,
                   wstate, bpc, bidx, bcur, bstart, battempted, bfailed, delivered, nb, wreg, removed, dstart>>
    /\ UNCHANGED notWs

\* await event_bus.subscribe(MCP_RESULTS, broadcast_event), then
\* _event_bus_available = True; or subscribe raises
BusSubscribe(ok) ==
    /\ lpc = "subscribe"
    /\ lpc' = IF ok THEN "serving" ELSE on_bus_exception(lpc)
    /\ busSubscribed' = ok
    /\ bus_available' = ok
    /\ busFailed' = ~ok
    /\ UNCHANGED <<busShutdown, active_connections,
                   wstate, bpc, bidx, bcur, bstart, battempted, bfailed, delivered, nb, wreg, removed, dstart>>
    /\ UNCHANGED notWs

\* after the yield: await orchestrator.shutdown()
LifespanShutdown ==
    /\ lpc = "serving"
    /\ lpc' = "closing"
    /\ UNCHANGED <<bus_available, busSubscribed, busFailed, busShutdown, active_connections,
                   wstate, bpc, bidx, bcur, bstart, battempted, bfailed, delivered, nb, wreg, removed, dstart>>
    /\ UNCHANGED notWs

\* if _event_bus_available: await shutdown_event_bus()
LifespanStop ==
    /\ lpc = "closing"
    /\ lpc' = "stopped"
    /\ busShutdown' = bus_available
    /\ busSubscribed' = IF bus_available THEN FALSE ELSE busSubscribed
    /\ UNCHANGED <<bus_available, busFailed, active_connections,
                   wstate, bpc, bidx, bcur, bstart, battempted, bfailed, delivered, nb, wreg, removed, dstart>>
    /\ UNCHANGED notWs

\* websocket_stream calls ws_manager.connect(websocket), which awaits
\* websocket.accept(): the handshake is in progress
Accept(c) ==
    /\ lpc = "serving"
    /\ wstate[c] = "new"
    /\ wstate' = [wstate EXCEPT ![c] = "handshake"]
    /\ UNCHANGED <<lpc, bus_available, busSubscribed, busFailed, busShutdown, active_connections,
                   bpc, bidx, bcur, bstart, battempted, bfailed, delivered, nb,
                   wreg, removed, dstart>>
    /\ UNCHANGED notWs

\* accept() raises: connect() is called outside the try block of
\* websocket_stream, so the handler ends and nothing was appended
AcceptFails(c) ==
    /\ wstate[c] = "handshake"
    /\ wstate' = [wstate EXCEPT ![c] = "gone"]
    /\ UNCHANGED <<lpc, bus_available, busSubscribed, busFailed, busShutdown, active_connections,
                   bpc, bidx, bcur, bstart, battempted, bfailed, delivered, nb,
                   wreg, removed, dstart>>
    /\ UNCHANGED notWs

\* accept() returned: self.active_connections.append(websocket), and the
\* handler enters its read loop
connect(c) ==
    /\ wstate[c] = "handshake"
    /\ wstate' = [wstate EXCEPT ![c] = "open"]
    /\ active_connections' = Append(active_connections, c)
    /\ wreg' = [wreg EXCEPT ![c] = @ + 1]
    /\ UNCHANGED <<lpc, bus_available, busSubscribed, busFailed, busShutdown,
                   bpc, bidx, bcur, bstart, battempted, bfailed, delivered, nb,
                   removed, dstart>>
    /\ UNCHANGED notWs

\* the client of an open websocket closes it: pushes to it raise from now on
ClientClose(c) ==
    /\ wstate[c] = "open"
    /\ wstate' = [wstate EXCEPT ![c] = "closed"]
    /\ UNCHANGED <<lpc, bus_available, busSubscribed, busFailed, busShutdown, active_connections,
                   bpc, bidx, bcur, bstart, battempted, bfailed, delivered, nb,
                   wreg, removed, dstart>>
    /\ UNCHANGED notWs

\* ConnectionManager.disconnect without the membership test: list.remove
\* raises ValueError for an element that is not in the list
manager_disconnect_unchecked(list, c) ==
    IF c \in Range(list)
    THEN [list |-> Remove(list, c), raised |-> FALSE]
    ELSE [list |-> list, raised |-> TRUE]

\* ConnectionManager.disconnect (132-135): if websocket in
\* self.active_connections: self.active_connections.remove(websocket)
manager_disconnect(list, c) ==
    IF c \in Range(list)
    THEN [list |-> Remove(list, c), raised |-> FALSE]
    ELSE [list |-> list, raised |-> FALSE]

\* a read loop whose second except clause is missing: only a client
\* disconnect ends in ws_manager.disconnect
except_clause_disconnect_only(exc) ==
    exc = "WebSocketDisconnect"

\* the except clauses of websocket_stream (352-356): WebSocketDisconnect and
\* every other Exception both end in ws_manager.disconnect(websocket)
except_clause(exc) ==
    exc \in {"WebSocketDisconnect", "Exception"}

\* the registry and the removal count after the read loop of c ended with exc
LoopEnds(c, exc) ==
    LET d == IF except_clause(exc)
             THEN manager_disconnect(active_connections, c)
             ELSE [list |-> active_connections, raised |-> FALSE]
    IN  /\ active_connections' = d.list
        /\ removed' = IF d.list # active_connections
                      THEN [removed EXCEPT ![c] = @ + 1]
                      ELSE removed
        /\ wstate' = [wstate EXCEPT ![c] = "gone"]

\* websocket_stream: receive_text raises WebSocketDisconnect for a client that
\* is gone, the except clause calls ws_manager.disconnect(websocket)
disconnect(c) ==
    /\ wstate[c] = "closed"
    /\ spos[c] = "recv"
    /\ LoopEnds(c, "WebSocketDisconnect")
    /\ UNCHANGED <<lpc, bus_available, busSubscribed, busFailed, busShutdown,
                   bpc, bidx, bcur, bstart, battempted, bfailed, delivered, nb,
                   wreg, dstart>>
    /\ UNCHANGED notWs

\* the list iterator of "for connection in self.active_connections": it holds
\* an index into the live list and stops when the index is past its end
IterNext(list, idx) ==
    IF idx < Len(list) THEN [stop |-> FALSE, item |-> list[idx + 1]]
    ELSE [stop |-> TRUE, item |-> 0]

\* the for loop moves on to its next iteration: await connection.send_json, or
\* the loop is over and broadcast returns
BroadcastAdvance ==
    LET n == IterNext(active_connections, bidx)
    IN  IF n.stop
        THEN /\ bpc' = "idle"
             /\ bcur' = 0
             /\ UNCHANGED <<bidx, battempted>>
        ELSE /\ bpc' = "send"
             /\ bcur' = n.item
             /\ bidx' = bidx + 1
             /\ battempted' = battempted \cup {n.item}

\* the bus delivers an MCP_RESULTS event to broadcast_event, which awaits
\* ws_manager.broadcast(event.to_dict())
BroadcastBegin ==
    /\ lpc = "serving"
    /\ busSubscribed
    /\ bpc = "idle"
    /\ nb < MaxBroadcasts
    /\ nb' = nb + 1
    /\ bstart' = Range(active_connections)
    /\ LET n == IterNext(active_connections, 0)
       IN  IF n.stop
           THEN /\ bpc' = "idle"
                /\ bcur' = 0
                /\ bidx' = 0
                /\ battempted' = {}
           ELSE /\ bpc' = "send"
                /\ bcur' = n.item
                /\ bidx' = 1
                /\ battempted' = {n.item}
    /\ dstart' = delivered
    /\ UNCHANGED <<lpc, bus_available, busSubscribed, busFailed, busShutdown, active_connections,
                   wstate, bfailed, delivered, wreg, removed>>
    /\ UNCHANGED notWs

\* await connection.send_json(message) is over: the event was pushed, or the
\* push raised and the except clause logged it; then the next iteration. The
\* push to a client that stopped reading does not complete.
BroadcastSend ==
    /\ bpc = "send"
    /\ wstate[bcur] # "stalled"
    /\ IF wstate[bcur] = "open"
       THEN /\ delivered' = [delivered EXCEPT ![bcur] = @ + 1]
            /\ UNCHANGED bfailed
       ELSE /\ bfailed' = bfailed \cup {bcur}
            /\ UNCHANGED delivered
    /\ BroadcastAdvance
    /\ UNCHANGED <<lpc, bus_available, busSubscribed, busFailed, busShutdown, active_connections,
                   wstate, bstart, nb, wreg, removed, dstart>>
    /\ UNCHANGED notWs

NextWs ==
    \/ LifespanStart
    \/ \E ok \in BOOLEAN : BusConnect(ok)
    \/ \E ok \in BOOLEAN : BusSubscribe(ok)
    \/ LifespanShutdown
    \/ LifespanStop
    \/ \E c \in Conns : Accept(c)
    \/ \E c \in Conns : AcceptFails(c)
    \/ \E c \in Conns : connect(c)
    \/ \E c \in Conns : ClientClose(c)
    \/ \E c \in Conns : disconnect(c)
    \/ BroadcastBegin
    \/ BroadcastSend

SpecWs == Init /\ [][NextWs]_vars

\* the client of an open websocket stops reading: a push to it blocks and
\* never completes
ClientStall(c) ==
    /\ wstate[c] = "open"
    /\ wstate' = [wstate EXCEPT ![c] = "stalled"]
    /\ UNCHANGED <<lpc, bus_available, busSubscribed, busFailed, busShutdown, active_connections,
                   bpc, bidx, bcur, bstart, battempted, bfailed, delivered, nb,
                   wreg, removed, dstart>>
    /\ UNCHANGED notWs

NextWsLive ==
    \/ NextWs
    \/ \E c \in Conns : ClientStall(c)

\* the event loop resumes broadcast() whenever the push it awaits is over
SpecWsLive == Init /\ [][NextWsLive]_vars /\ WF_vars(BroadcastSend)

\* C24: a push that blocks and never completes holds up nobody else: every
\* other registered connection whose client is there and that the running
\* broadcast has not pushed to yet is eventually pushed to (or leaves).
C24_BlockedPushDelaysNoOne ==
    \A c \in Conns :
        (/\ bpc = "send"
         /\ wstate[bcur] = "stalled"
         /\ c # bcur
         /\ c \in Range(active_connections)
         /\ wstate[c] = "open"
         /\ c \notin battempted)
        ~> (c \in battempted \/ c \notin Range(active_connections) \/ wstate[c] # "open")

(***************************************************************************)
(* The read loop of websocket_stream (API.py 349-351):                     *)
(*     data = await websocket.receive_text()                               *)
(*     await websocket.send_json({"type": "ack", "message": data})         *)
(***************************************************************************)
\* an ack that does not carry the text it answers
ack_fixed(text) ==
    [type |-> "ack", message |-> "ok"]

\* {"type": "ack", "message": data}
ack(text) ==
    [type |-> "ack", message |-> text]

\* the client of an open websocket sends a text frame
ClientSend(c, text) ==
    /\ wstate[c] = "open"
    /\ nmsg < MaxMsgs
    /\ nmsg' = nmsg + 1
    /\ inbox' = [inbox EXCEPT ![c] = Append(@, text)]
    /\ UNCHANGED <<spos, data, rcvd, acks, dargs, draised>>
    /\ UNCHANGED <<rlVars, thVars, rqVars, fpVars, httpVars, wsVars, valVars, hcVars, adVars, wrVars>>

\* data = await websocket.receive_text() returns the oldest unread text
Receive(c) ==
    /\ wstate[c] \in {"open", "stalled", "closed"}
    /\ spos[c] = "recv"
    /\ inbox[c] # <<>>
    /\ data' = [data EXCEPT ![c] = Head(inbox[c])]
    /\ inbox' = [inbox EXCEPT ![c] = Tail(@)]
    /\ rcvd' = [rcvd EXCEPT ![c] = Append(@, Head(inbox[c]))]
    /\ spos' = [spos EXCEPT ![c] = "ack"]
    /\ UNCHANGED <<acks, nmsg, dargs, draised>>
    /\ UNCHANGED <<rlVars, thVars, rqVars, fpVars, httpVars, wsVars, valVars, hcVars, adVars, wrVars>>

\* await websocket.send_json(ack) is over: the ack was sent and the loop is
\* back at receive_text, or the send raised for a client that is gone and the
\* second except clause ends the handler
Ack(c) ==
    /\ spos[c] = "ack"
    /\ wstate[c] \in {"open", "closed"}
    /\ IF wstate[c] = "open"
       THEN /\ acks' = [acks EXCEPT ![c] = Append(@, ack(data[c]))]
            /\ spos' = [spos EXCEPT ![c] = "recv"]
            /\ UNCHANGED <<active_connections, removed, wstate>>
       ELSE /\ LoopEnds(c, "Exception")
            /\ UNCHANGED <<acks, spos>>
    /\ UNCHANGED <<data, inbox, rcvd, nmsg, dargs, draised>>
    /\ UNCHANGED <<lpc, bus_available, busSubscribed, busFailed, busShutdown,
                   bpc, bidx, bcur, bstart, battempted, bfailed, delivered, nb,
                   wreg, dstart>>
    /\ UNCHANGED notStream

\* receive_text raises something other than WebSocketDisconnect (a frame
\* that is not text): the second except clause ends the handler
ReadError(c) ==
    /\ wstate[c] \in {"open", "stalled"}
    /\ spos[c] = "recv"
    /\ LoopEnds(c, "Exception")
    /\ UNCHANGED <<lpc, bus_available, busSubscribed, busFailed, busShutdown,
                   bpc, bidx, bcur, bstart, battempted, bfailed, delivered, nb,
                   wreg, dstart>>
    /\ UNCHANGED stVars
    /\ UNCHANGED notStream

NextStream ==
    \/ LifespanStart
    \/ BusConnect(TRUE)
    \/ BusSubscribe(TRUE)
    \/ \E c \in Conns : Accept(c)
    \/ \E c \in Conns : AcceptFails(c)
    \/ \E c \in Conns : connect(c)
    \/ \E c \in Conns, text \in Texts : ClientSend(c, text)
    \/ \E c \in Conns : Receive(c)
    \/ \E c \in Conns : Ack(c)
    \/ \E c \in Conns : ReadError(c)
    \/ \E c \in Conns : ClientClose(c)
    \/ \E c \in Conns : disconnect(c)

\* the websocket endpoint with its clients
SpecStream == Init /\ [][NextStream]_vars

(***************************************************************************)
(* ConnectionManager.disconnect called directly, any number of times and   *)
(* for any websocket, on a registry that earlier connects built.           *)
(***************************************************************************)
\* the registries connect() can build: every websocket is appended once
Registries ==
    {l \in UNION {[1..n -> Conns] : n \in 1..MaxConns} :
        \A i, j \in 1..Len(l) : i # j => l[i] # l[j]}

\* the websockets of list were accepted and appended in that order
Registered(list) ==
    /\ \A c \in Conns : wstate[c] = "new"
    /\ dargs = <<>>
    /\ active_connections' = list
    /\ wstate' = [c \in Conns |-> IF c \in Range(list) THEN "open" ELSE "new"]
    /\ wreg' = [c \in Conns |-> IF c \in Range(list) THEN 1 ELSE 0]
    /\ UNCHANGED <<lpc, bus_available, busSubscribed, busFailed, busShutdown,
                   bpc, bidx, bcur, bstart, battempted, bfailed, delivered, nb,
                   removed, dstart>>
    /\ UNCHANGED notWs

\* ws_manager.disconnect(c): a synchronous method, the event loop runs it
\* whole
DisconnectCall(c) ==
    /\ Len(dargs) < MaxDisconnects
    /\ LET d == manager_disconnect(active_connections, c)
       IN  /\ active_connections' = d.list
           /\ draised' = (draised \/ d.raised)
           /\ removed' = IF d.list # active_connections
                         THEN [removed EXCEPT ![c] = @ + 1]
                         ELSE removed
    /\ dargs' = Append(dargs, c)
    /\ UNCHANGED <<lpc, bus_available, busSubscribed, busFailed, busShutdown,
                   wstate, bpc, bidx, bcur, bstart, battempted, bfailed, delivered, nb,
                   wreg, dstart>>
    /\ UNCHANGED <<spos, data, inbox, rcvd, acks, nmsg>>
    /\ UNCHANGED notStream

NextDisc ==
    \/ \E list \in Registries : Registered(list)
    \/ \E c \in Conns : DisconnectCall(c)

SpecDisc == Init /\ [][NextDisc]_vars

AcksOf(texts) ==
    [i \in 1..Len(texts) |-> [type |-> "ack", message |-> texts[i]]]

\* what decides which connections a broadcast reaches
Reach ==
    <<active_connections, bpc, bidx, bcur, bstart, battempted, bfailed, delivered>>

\* C21: on an open connection every text received is answered with exactly
\* one ack that carries the same text (while the ack of the latest text is
\* being sent, all the texts before it are acked), and receiving a text or
\* acking it changes neither the registry nor the connections a broadcast
\* reaches.
C21_EchoAndFrame ==
    [][\A c \in Conns :
          /\ wstate'[c] = "open" =>
                /\ spos'[c] = "recv" => acks'[c] = AcksOf(rcvd'[c])
                /\ spos'[c] = "ack" =>
                      /\ rcvd'[c] # <<>>
                      /\ acks'[c] = AcksOf(SubSeq(rcvd'[c], 1, Len(rcvd'[c]) - 1))
          /\ (wstate'[c] = "open" /\ (rcvd'[c] # rcvd[c] \/ acks'[c] # acks[c])) =>
                Reach' = Reach]_vars

\* how many times c is in the registry
Occurrences(c) ==
    Cardinality({i \in 1..Len(active_connections) : active_connections[i] = c})

\* C25: a websocket is in the registry only after its handshake completed,
\* at most once; when its read loop has ended (client disconnect, read error
\* or failed ack) it is not in the registry, and a websocket that was
\* registered has then been removed exactly once.
C25_RegisteredWhileServed ==
    \A c \in Conns :
        /\ wstate[c] \in {"new", "handshake"} => Occurrences(c) = 0 /\ wreg[c] = 0
        /\ wreg[c] <= 1
        /\ Occurrences(c) = wreg[c] - removed[c]
        /\ wstate[c] = "gone" => Occurrences(c) = 0 /\ removed[c] = wreg[c]

C25_Witness ==
    /\ wstate[1] = "gone" /\ spos[1] = "ack" /\ removed[1] = 1
    /\ wstate[2] = "gone" /\ wreg[2] = 0

C21_Witness ==
    /\ wstate[1] = "open"
    /\ spos[1] = "recv"
    /\ Len(acks[1]) = MaxMsgs
    /\ acks[1][1].message # acks[1][MaxMsgs].message
    /\ Len(active_connections) > 1

\* broadcast() returns at this step
BroadcastReturns ==
    bpc = "send" /\ bpc' = "idle"

\* C14: broadcast(event) attempts delivery to every registered connection,
\* also when a push raises: when it returns, every connection that was
\* registered when it was called and still is has been pushed to, and every
\* one of them whose client is there has received the event.
C14_EveryConnectionAttempted ==
    [][BroadcastReturns =>
          \A c \in bstart \cap Range(active_connections') :
              /\ c \in battempted'
              /\ wstate'[c] = "open" => delivered'[c] > 0]_vars

\* C15: after a broadcast returned, no connection whose push failed is still
\* in the registry, and the registry never holds a connection that was
\* observed closed.
C15_NoFailedConnectionRegistered ==
    \A c \in Range(active_connections) :
        /\ bpc = "idle" => c \notin bfailed
        /\ wstate[c] # "gone"

\* C27: when the registry changes while a broadcast is in progress, every
\* connection that stays registered (with its client there) from the call to
\* the return of broadcast receives the event, and no connection receives the
\* event of one broadcast more than once.
C27_StayersReceiveExactlyOnce ==
    [][/\ BroadcastReturns =>
             \A c \in bstart \cap Range(active_connections') :
                 wstate'[c] = "open" => delivered'[c] = dstart'[c] + 1
       /\ \A c \in Conns : delivered'[c] <= dstart'[c] + 1]_vars

\* C18: a failure of connect() or subscribe() at startup is absorbed: startup
\* goes on to the serving state with the relay disabled, nothing crashes, no
\* event is ever relayed and shutdown completes without touching the bus.
C18_BusFailureAbsorbed ==
    /\ lpc # "crashed"
    /\ busFailed =>
          /\ lpc \in {"serving", "closing", "stopped"}
          /\ ~bus_available
          /\ ~busSubscribed
          /\ nb = 0 /\ bpc = "idle"
          /\ ~busShutdown

C18_Witness ==
    /\ busFailed
    /\ lpc = "stopped"
    /\ Len(active_connections) > 0

(***************************************************************************)
(* MCPQueryRequest: the query field and its validator (API.py 101-117).    *)
(* A string is a sequence of one-character strings.                        *)
(***************************************************************************)
LowerCase == <<"a", "b", "c", "d", "e", "f", "g", "h", "i", "j", "k", "l", "m", "n", "o", "p", "q", "r", "s", "t", "u", "v", "w", "x", "y", "z">>
UpperCase == <<"A", "B", "C", "D", "E", "F", "G", "H", "I", "J", "K", "L", "M", "N", "O", "P", "Q", "R", "S", "T", "U", "V", "W", "X", "Y", "Z">>

\* str.upper() and str.lower() on one character: letters change, others stay
upper_char(c) ==
    IF \E i \in 1..26 : LowerCase[i] = c
    THEN UpperCase[CHOOSE i \in 1..26 : LowerCase[i] = c]
    ELSE c

lower_char(c) ==
    IF \E i \in 1..26 : UpperCase[i] = c
    THEN LowerCase[CHOOSE i \in 1..26 : UpperCase[i] = c]
    ELSE c

\* v.upper()
upper(v) ==
    [i \in 1..Len(v) |-> upper_char(v[i])]

\* pattern in v
Contains(pattern, v) ==
    \E i \in 0..(Len(v) - Len(pattern)) : SubSeq(v, i + 1, i + Len(pattern)) = pattern

\* v.strip(): without its leading and trailing whitespace
strip(v) ==
    LET kept == {i \in 1..Len(v) : v[i] # " "}
    IN  IF kept = {} THEN <<>>
        ELSE SubSeq(v, CHOOSE i \in kept : \A j \in kept : i <= j,
                       CHOOSE i \in kept : \A j \in kept : i >= j)

\* dangerous_patterns = ["DROP", "DELETE", "TRUNCATE", "<script>", "javascript:"]
dangerous_patterns ==
    << <<"D", "R", "O", "P">>,
       <<"D", "E", "L", "E", "T", "E">>,
       <<"T", "R", "U", "N", "C", "A", "T", "E">>,
       <<"<", "s", "c", "r", "i", "p", "t", ">">>,
       <<"j", "a", "v", "a", "s", "c", "r", "i", "p", "t", ":">> >>

\* Field(..., min_length=1, max_length=1000)
MinQueryLen == 1
MaxQueryLen == 1000

\* sanitize_query(v): raise ValueError when a pattern is in v.upper(), else
\* return v.strip()
sanitize_query(v) ==
    IF \E k \in 1..Len(dangerous_patterns) : Contains(dangerous_patterns[k], upper(v))
    THEN [ok |-> FALSE, value |-> <<>>]
    ELSE [ok |-> TRUE, value |-> strip(v)]

\* pattern p written with the letters at the positions in S in upper case and
\* the others in lower case
Mixed(p, S) ==
    [i \in 1..Len(p) |-> IF i \in S THEN upper_char(p[i]) ELSE lower_char(p[i])]

\* what a query has around a pattern
Pads == {<<>>, <<"x", " ">>}

\* the queries submitted: every denylisted pattern in every mix of case, alone
\* or inside other text, and queries without any pattern
Queries ==
    {pre \o Mixed(dangerous_patterns[k], S) \o post :
        <<k, S, pre, post>> \in
            UNION {{<<k, S, pre, post>> : S \in SUBSET (1..Len(dangerous_patterns[k])),
                                          pre \in Pads, post \in Pads} :
                   k \in 1..Len(dangerous_patterns)}}
    \cup {<<>>, <<"h", "i">>, <<" ", "h", "i", " ">>, <<"d", "r", "i", "p">>}

\* a body with one of these queries is posted to /mcp/query
Submit ==
    /\ vres = None
    /\ \E q \in Queries : query' = q
    /\ vres' = "pending"
    /\ UNCHANGED vout
    /\ UNCHANGED notVal

\* pydantic validates the field: the length constraints, then sanitize_query
Validate ==
    /\ vres = "pending"
    /\ IF Len(query) < MinQueryLen \/ Len(query) > MaxQueryLen
       THEN /\ vres' = "rejected"
            /\ vout' = <<>>
       ELSE LET r == sanitize_query(query)
            IN  /\ vres' = IF r.ok THEN "accepted" ELSE "rejected"
                /\ vout' = r.value
    /\ UNCHANGED query
    /\ UNCHANGED notVal

NextVal ==
    \/ Submit
    \/ Validate

SpecVal == Init /\ [][NextVal]_vars

\* C16: a query that contains a denylisted substring (DROP, DELETE, TRUNCATE,
\* <script>, javascript:) in any mix of upper and lower case is rejected by
\* validation; this holds for each of the five patterns.
C16_DenylistedRejected ==
    \A k \in 1..Len(dangerous_patterns) :
        (vres \in {"accepted", "rejected"}
            /\ Contains(upper(dangerous_patterns[k]), upper(query)))
        => vres = "rejected"

(***************************************************************************)
(* health_check (API.py 239-268)                                           *)
(***************************************************************************)
\* what checks[k].get("status") can be: a status, or None without the key
CheckStatuses == {"healthy", "unavailable", "unhealthy", None}

\* the dependencies that decide the overall status (line 258)
CriticalDependencies == {"redis", "supabase", "mcp_servers"}

\* critical_healthy (256-259) and the "status" of the report (262)
overall_status(c) ==
    IF \A k \in CriticalDependencies : c[k] \in {"healthy", "unavailable"}
    THEN "healthy" ELSE "degraded"

\* GET /health: the four checks report c, the handler builds its report
HealthCheck(c) ==
    /\ checks' = c
    /\ health_status' = overall_status(c)
    /\ UNCHANGED notHc

NextHealth ==
    \E c \in [Dependencies -> CheckStatuses] : HealthCheck(c)

SpecHealth == Init /\ [][NextHealth]_vars

\* C19: for every combination of dependency statuses the health operation
\* reports healthy exactly when every dependency (backend API, memory store,
\* pub/sub channel, agent-serving processes) reports healthy or unavailable,
\* and degraded otherwise.
C19_HealthyIffAllDependenciesFine ==
    health_status # None =>
        /\ health_status \in {"healthy", "degraded"}
        /\ health_status = "healthy" <=>
              \A d \in Dependencies : checks[d] \in {"healthy", "unavailable"}

(***************************************************************************)
(* Claims about the admission of inbound requests                          *)
(***************************************************************************)
\* no handler was called for request r: nothing attached, no cache, no tool
\* read, no outbound call
Untouched(r) ==
    /\ ep[r] = None
    /\ ctx[<<r, 0>>] = EmptyCtx
    /\ heap[r] = <<>>
    /\ nops[r] = 0
    /\ creds[r] = {}
    /\ Issued(r) = 0

\* C26: every endpoint that takes a bearer credential and runs tool logic
\* attaches it before its first outbound call: every outbound call issued
\* while a request is served was built from the credential of that request
\* and carries it as its Authorization header.
C26_CredentialOnEveryCall ==
    \A r \in Reqs :
        /\ \A t \in creds[r] : t = Token(r)
        /\ pend[r].url # None => pend[r].auth = Authorization(Token(r))

\* the latest get() that returned in request r was a failed get of url
FailedLast(r, url) ==
    lastgot[r].url = url /\ ~lastgot[r].ok

\* this step is the start of a get(url) of request r, on the handler's thread
\* or in a callable of _fetch_parallel
GetBegins(r, url) ==
    \/ GetStart(r, url)
    \/ \E i \in Tasks : turl[r][i] = url /\ TaskStart(r, i)

\* C28: a response that is not successful is never stored: the cache holds
\* only successful responses, each under its own url, and a get(url) that
\* follows a failed get(url) issues a new outbound call.
C28_FailuresNotCached ==
    [][\A r \in Reqs :
          /\ \A u \in DOMAIN heap'[r] : heap'[r][u].ok /\ heap'[r][u].url = u
          /\ \A u \in Urls :
                (FailedLast(r, u) /\ GetBegins(r, u)) =>
                    outbound'[r][u] = outbound[r][u] + 1]_vars

\* C29: post, put and delete neither read nor modify the request cache: a
\* write changes no cache entry and no context, and after a write a get for
\* a url that is cached returns the cached response without an outbound call.
C29_WritesLeaveCacheAlone ==
    [][\A r \in Reqs :
          /\ writes'[r] # writes[r] =>
                /\ heap' = heap /\ ctx' = ctx
                /\ outbound' = outbound /\ ngot' = ngot /\ lastgot' = lastgot
          /\ \A u \in Urls :
                (/\ writes[r] # <<>>
                 /\ cache_hit(ctx, heap, <<r, 0>>, u)
                 /\ GetStart(r, u)) =>
                    /\ lastgot'[r] = heap[ctx[<<r, 0>>].cache][u]
                    /\ outbound' = outbound]_vars

C29_Witness ==
    /\ writes["A"] # <<>>
    /\ writes["A"][1].url = "/holdings"
    /\ writes["A"][1].after = 1
    /\ ngot["A"] = 2
    /\ outbound["A"]["/holdings"] = 1
    /\ lastgot["A"].url = "/holdings"
    /\ lastgot["A"].ok

\* C30: _fetch_parallel returns or raises only after every callable it
\* submitted has finished, also when an earlier future raised; once the call
\* has ended no callable of it is running and no context of a callable still
\* refers to the request's cache.
C30_EndsAfterEveryTask ==
    [][\A r \in Reqs :
          /\ FPLeaves(r) =>
                \A i \in 1..tn[r] : tstate[r][i] \in {"done", "raised"}
          /\ pc'[r] # "fp" =>
                /\ \A i \in Tasks : tstate'[r][i] # "running"
                /\ \A i \in Tasks : ctx'[<<r, i>>].cache = None]_vars

C30_Witness ==
    /\ fpret["A"] = "raised"
    /\ pc["A"] # "fp"
    /\ nops["A"] = 1
    /\ ngot["A"] = MaxTasks

====
